---- MODULE Spec2Model ----
(***************************************************************************)
(* Model of the cached Singapore ship-data lookup of position-api           *)
(* (src/main.py): get_latest_cache_file, save_to_cache and the handler      *)
(* get_singapore_ship_data of GET /api/ship, run by concurrent requests     *)
(* against one shared object store and one wall clock.                      *)
(*                                                                          *)
(* Time is counted in ticks since 2024-01-01 00:00:00 UTC; a second has     *)
(* TicksPerSecond ticks, so that datetime.now() has a sub-second part that  *)
(* strftime('%S') drops.                                                    *)
(* An object name is a sequence of segments: the text "singapore-cache/",   *)
(* the text ".json", a date-time text (its six numeric fields, zero-padded  *)
(* or not), or some other text.  str.replace and str.endswith act on the    *)
(* segments.                                                                *)
(***************************************************************************)
EXTENDS Integers, Sequences, FiniteSets, TLC

(* ---------------------------------------------------------------- bounds *)
\* ticks per second of the modelled clock
TicksPerSecond == 2
\* how many times the clock advances in one behaviour
MaxAdvances == 2
\* how many objects the bucket holds at the start
MaxInitKeys == 1

\* how many objects the bucket holds when the cache index alone is exercised
MaxFindKeys == 3

(* ------------------------------------------------------------- constants *)
CACHE_EXPIRY_MINUTES == 10

\* the instant tick 0 stands for: 2024-01-01 00:00:00 UTC
Epoch == <<2024, 1, 1>>

None == <<>>

(* ------------------------------------------------------ calendar and time *)
IsLeap(y) == (y % 4 = 0 /\ y % 100 # 0) \/ y % 400 = 0

DaysInMonth(y, m) ==
    IF m = 2 THEN (IF IsLeap(y) THEN 29 ELSE 28)
    ELSE IF m \in {4, 6, 9, 11} THEN 30 ELSE 31

DaysInYear(y) == IF IsLeap(y) THEN 366 ELSE 365

RECURSIVE DaysBeforeYear(_)
DaysBeforeYear(y) ==
    IF y <= Epoch[1] THEN 0 ELSE DaysInYear(y - 1) + DaysBeforeYear(y - 1)

RECURSIVE DaysBeforeMonth(_, _)
DaysBeforeMonth(y, m) ==
    IF m <= 1 THEN 0 ELSE DaysInMonth(y, m - 1) + DaysBeforeMonth(y, m - 1)

TicksPerMinute == 60 * TicksPerSecond
TicksPerDay == 86400 * TicksPerSecond

\* datetime(Y, M, D, h, m, s, tzinfo=utc) as an instant
Instant(f) ==
    (DaysBeforeYear(f[1]) + DaysBeforeMonth(f[1], f[2]) + (f[3] - 1)) * TicksPerDay
    + ((f[4] * 60 + f[5]) * 60 + f[6]) * TicksPerSecond

RECURSIVE DateOf(_, _, _)
DateOf(days, y, m) ==
    IF days < DaysInMonth(y, m) THEN <<y, m, days + 1>>
    ELSE IF m = 12 THEN DateOf(days - DaysInMonth(y, m), y + 1, 1)
    ELSE DateOf(days - DaysInMonth(y, m), y, m + 1)

\* the six fields strftime('%Y-%m-%d_%H-%M-%S') prints for an instant:
\* the part of the instant below one second is dropped
Fields(t) ==
    LET secs == t \div TicksPerSecond
        date == DateOf(secs \div 86400, Epoch[1], Epoch[2])
        sod  == secs % 86400
    IN  <<date[1], date[2], date[3], sod \div 3600, (sod % 3600) \div 60, sod % 60>>

timedelta(minutes) == minutes * TicksPerMinute

(* ------------------------------------------------------------ object names *)
Seg(kind, fields, padded) == [kind |-> kind, fields |-> fields, padded |-> padded]

SINGAPORE_CACHE_FOLDER == Seg("folder", <<>>, TRUE)
DotJson == Seg("json", <<>>, TRUE)
Other == Seg("other", <<>>, TRUE)
\* a date-time text with every field zero-padded, as strftime prints it
Stamp(f) == Seg("stamp", f, TRUE)
\* the same date-time with its fields not zero-padded
LooseStamp(f) == Seg("stamp", f, FALSE)

EndsWith(name, seg) == Len(name) > 0 /\ name[Len(name)] = seg

StartsWith(name, seg) == Len(name) > 0 /\ name[1] = seg

\* str.replace(seg, ''): every occurrence of seg is removed
Replace(name, seg) == SelectSeq(name, LAMBDA s : s # seg)

\* datetime.strptime(text, '%Y-%m-%d_%H-%M-%S').replace(tzinfo=utc):
\* the text must be one date-time and nothing else; a field may lack its
\* leading zero; the fields must be a date and a time of day
StrptimeOk(text) ==
    /\ Len(text) = 1
    /\ text[1].kind = "stamp"
    /\ LET f == text[1].fields
       IN  /\ f[1] \in 1000..9999
           /\ f[2] \in 1..12
           /\ f[3] \in 1..DaysInMonth(f[1], f[2])
           /\ f[4] \in 0..23
           /\ f[5] \in 0..59
           /\ f[6] \in 0..59

Strptime(text) == Instant(text[1].fields)

\* lines 86-87: the name with the folder and '.json' taken out
Filename(name) == Replace(Replace(name, SINGAPORE_CACHE_FOLDER), DotJson)

\* line 91 with the comparison made strict
WithinExpiry_Strict(current_time, file_timestamp) ==
    current_time - file_timestamp < timedelta(CACHE_EXPIRY_MINUTES)

\* line 91 with timestamps later than the current time refused
WithinExpiry_NoFuture(current_time, file_timestamp) ==
    /\ file_timestamp <= current_time
    /\ current_time - file_timestamp <= timedelta(CACHE_EXPIRY_MINUTES)

\* line 91
WithinExpiry(current_time, file_timestamp) ==
    current_time - file_timestamp <= timedelta(CACHE_EXPIRY_MINUTES)

\* lines 82-95: the loop that builds valid_blobs, as (name, timestamp) pairs
ValidBlobs(blobs, current_time) ==
    { <<b, Strptime(Filename(b))>> :
        b \in { n \in blobs : /\ EndsWith(n, DotJson)
                              /\ StrptimeOk(Filename(n))
                              /\ WithinExpiry(current_time, Strptime(Filename(n))) } }

\* line 99: max(valid_blobs, key=timestamp); with equal timestamps any of them
MaxByTimestamp(valid_blobs) ==
    { v \in valid_blobs : \A w \in valid_blobs : w[2] <= v[2] }

\* bucket.list_blobs(prefix=SINGAPORE_CACHE_FOLDER)
ListBlobs(names) == { n \in names : StartsWith(n, SINGAPORE_CACHE_FOLDER) }

\* lines 103-105 without the except clause: the error of the store leaves
\* get_latest_cache_file
CacheCheckFailed_Raises == [raised |-> TRUE, blob |-> None, timestamp |-> 0]

\* lines 103-105: an error of the store inside get_latest_cache_file is
\* logged and (None, None) is returned
CacheCheckFailed == [raised |-> FALSE, blob |-> None, timestamp |-> 0]

\* lines 67-105: what get_latest_cache_file can return, as records
\* [raised, blob, timestamp]; listOk = FALSE is the store raising an error
GetLatestCacheFile(listOk, names, current_time) ==
    IF ~listOk THEN { CacheCheckFailed }
    ELSE LET valid_blobs == ValidBlobs(ListBlobs(names), current_time)
         IN  IF valid_blobs # {}
             THEN { [raised |-> FALSE, blob |-> v[1], timestamp |-> v[2]] :
                      v \in MaxByTimestamp(valid_blobs) }
             ELSE { [raised |-> FALSE, blob |-> None, timestamp |-> 0] }

\* lines 117-118 with the local time of a zone one hour behind UTC
CacheFilename_Local(now) ==
    <<SINGAPORE_CACHE_FOLDER, Stamp(Fields(now - 3600 * TicksPerSecond)), DotJson>>

\* lines 117-118: the name save_to_cache writes to
CacheFilename(now) == <<SINGAPORE_CACHE_FOLDER, Stamp(Fields(now)), DotJson>>

(* ---------------------------------------------------------------- payloads *)
\* json.dumps(data, indent=2) as the text of an object, and json.loads of it
Dumps(data) == [json |-> TRUE, data |-> data]
NotJson == [json |-> FALSE, data |-> <<>>]
LoadsOk(content) == content.json
Loads(content) == content.data

\* dict.get(key, default)
Get(ship, key, default) == IF key \in DOMAIN ship THEN ship[key] ELSE default

\* a JSON number: its value and whether it is an int or a float
JInt(v) == [v |-> v, float |-> FALSE]
JFloat(v) == [v |-> v, float |-> TRUE]

\* float(x) of a number
Float(x) == [v |-> x.v, float |-> TRUE]

\* lines 297-321 with the degrees defaulting to 0 instead of the plain value
TransformShip_NoFallback(ship) ==
    [ vesselParticulars |->
        [ vesselName    |-> Get(ship, "vesselName", ""),
          callSign      |-> Get(ship, "callSign", ""),
          imoNumber     |-> Get(ship, "imoNumber", ""),
          flag          |-> Get(ship, "flag", ""),
          vesselLength  |-> Float(Get(ship, "vesselLength", JInt(0))),
          vesselBreadth |-> Float(Get(ship, "vesselBreadth", JInt(0))),
          vesselDepth   |-> Float(Get(ship, "vesselDepth", JInt(0))),
          vesselType    |-> Get(ship, "vesselType", ""),
          grossTonnage  |-> Float(Get(ship, "grossTonnage", JInt(0))),
          netTonnage    |-> Float(Get(ship, "netTonnage", JInt(0))),
          deadweight    |-> Float(Get(ship, "deadweight", JInt(0))),
          mmsiNumber    |-> Get(ship, "mmsiNumber", ""),
          yearBuilt     |-> Get(ship, "yearBuilt", "") ],
      latitude         |-> Float(Get(ship, "latitude", JInt(0))),
      longitude        |-> Float(Get(ship, "longitude", JInt(0))),
      latitudeDegrees  |-> Float(Get(ship, "latitudeDegrees", JInt(0))),
      longitudeDegrees |-> Float(Get(ship, "longitudeDegrees", JInt(0))),
      speed            |-> Float(Get(ship, "speed", JInt(0))),
      course           |-> Float(Get(ship, "course", JInt(0))),
      heading          |-> Float(Get(ship, "heading", JInt(0))),
      timeStamp        |-> Get(ship, "timeStamp", "") ]

\* lines 297-321
TransformShip(ship) ==
    [ vesselParticulars |->
        [ vesselName    |-> Get(ship, "vesselName", ""),
          callSign      |-> Get(ship, "callSign", ""),
          imoNumber     |-> Get(ship, "imoNumber", ""),
          flag          |-> Get(ship, "flag", ""),
          vesselLength  |-> Float(Get(ship, "vesselLength", JInt(0))),
          vesselBreadth |-> Float(Get(ship, "vesselBreadth", JInt(0))),
          vesselDepth   |-> Float(Get(ship, "vesselDepth", JInt(0))),
          vesselType    |-> Get(ship, "vesselType", ""),
          grossTonnage  |-> Float(Get(ship, "grossTonnage", JInt(0))),
          netTonnage    |-> Float(Get(ship, "netTonnage", JInt(0))),
          deadweight    |-> Float(Get(ship, "deadweight", JInt(0))),
          mmsiNumber    |-> Get(ship, "mmsiNumber", ""),
          yearBuilt     |-> Get(ship, "yearBuilt", "") ],
      latitude         |-> Float(Get(ship, "latitude", JInt(0))),
      longitude        |-> Float(Get(ship, "longitude", JInt(0))),
      latitudeDegrees  |-> Float(Get(ship, "latitudeDegrees", Get(ship, "latitude", JInt(0)))),
      longitudeDegrees |-> Float(Get(ship, "longitudeDegrees", Get(ship, "longitude", JInt(0)))),
      speed            |-> Float(Get(ship, "speed", JInt(0))),
      course           |-> Float(Get(ship, "course", JInt(0))),
      heading          |-> Float(Get(ship, "heading", JInt(0))),
      timeStamp        |-> Get(ship, "timeStamp", "") ]

\* lines 295-322
Transform(api_data) == [i \in 1..Len(api_data) |-> TransformShip(api_data[i])]

(* ------------------------------------------------------------ the handler *)
\* str.strip() of a string of characters
RECURSIVE LStrip(_)
LStrip(str) == IF Len(str) > 0 /\ Head(str) = " " THEN LStrip(Tail(str)) ELSE str

RECURSIVE RStrip(_)
RStrip(str) ==
    IF Len(str) > 0 /\ str[Len(str)] = " "
    THEN RStrip(SubSeq(str, 1, Len(str) - 1)) ELSE str

Strip(str) == LStrip(RStrip(str))

\* line 256 without the test of the stripped key
KeyRejected_EmptyOnly(x_api_key) == Len(x_api_key) = 0

\* line 256: the key is rejected when empty or only whitespace
KeyRejected(x_api_key) == Len(x_api_key) = 0 \/ Strip(x_api_key) = <<>>

\* an exception: its class, and for an HTTPException its status code
Exc(cls, code, detail) == [cls |-> cls, code |-> code, detail |-> detail]

\* lines 330-338 without the clause for httpx.RequestError
Handle_NoRequestError(e) ==
    IF e.cls = "HTTPStatusError"
    THEN [status |-> 502, detail |-> "API error", body |-> <<>>]
    ELSE [status |-> 500, detail |-> e.detail, body |-> <<>>]

\* lines 330-338: the except clauses of the handler, tried in order; every
\* class here, HTTPException too, is a subclass of Exception
Handle(e) ==
    IF e.cls = "RequestError"
    THEN [status |-> 502, detail |-> "Network error", body |-> <<>>]
    ELSE IF e.cls = "HTTPStatusError"
    THEN [status |-> 502, detail |-> "API error", body |-> <<>>]
    ELSE [status |-> 500, detail |-> e.detail, body |-> <<>>]

\* a returned value: FastAPI answers 200 with it
Return(data) == [status |-> 200, detail |-> "", body |-> data]

\* line 283 with the test always passing
IsSuccess_Always(code) == TRUE

\* line 283
IsSuccess(code) == code \in 200..299

\* line 262 with the cached entry never used
AfterCheck_AlwaysMiss(cached_blob) == "miss"

\* line 262: a cached entry is used, without one the API is called
AfterCheck(cached_blob) == IF cached_blob # None THEN "hit" ELSE "miss"

\* lines 125-127 without the except clause: the error of the upload leaves
\* save_to_cache
SaveToCacheResult_Raises(uploadOk, cache_filename) ==
    IF uploadOk THEN [raised |-> FALSE, ret |-> cache_filename]
    ELSE [raised |-> TRUE, ret |-> None]

\* lines 112-127: what save_to_cache does with the outcome of the upload:
\* whether it raises, and what it returns
SaveToCacheResult(uploadOk, cache_filename) ==
    IF uploadOk THEN [raised |-> FALSE, ret |-> cache_filename]
    ELSE [raised |-> FALSE, ret |-> None]

(* ------------------------------------------------------------------ state *)
VARIABLES
    clock,      \* datetime.now(timezone.utc), in ticks
    advances,   \* how many times the clock has advanced
    store,      \* the bucket: object name -> content
    req         \* the requests to GET /api/ship, one record each

vars == <<clock, advances, store, req>>

Reqs == {"r1", "r2"}

\* the X-API-Key headers a request may carry
ApiKeys == { <<>>, <<" ", " ">>, <<" ", "k">> }

\* the bodies the upstream API may answer with
ApiBodies ==
    { << [latitude |-> JFloat(15)] >>,
      << [latitude |-> JInt(1), latitudeDegrees |-> JFloat(20), vesselName |-> "A"],
         [speed |-> JInt(7)] >> }

\* the clock at the start: 2024-01-01 10:06:00
BaseClock == Instant(<<2024, 1, 1, 10, 6, 0>>)

Deltas == {1, timedelta(CACHE_EXPIRY_MINUTES)}

CacheName(stamp) == <<SINGAPORE_CACHE_FOLDER, stamp, DotJson>>

\* the payload an earlier lookup cached, told apart by k
Cached(k) == Dumps(Transform(<< [latitude |-> JInt(k)] >>))

\* objects the bucket may hold at the start
InitObjects ==
    { [name |-> CacheName(Stamp(<<2024, 1, 1, 10, 0, 0>>)), content |-> Cached(1)],
      [name |-> CacheName(Stamp(<<2024, 1, 1, 10, 5, 0>>)), content |-> Cached(2)],
      [name |-> CacheName(Stamp(<<2024, 1, 1, 9, 56, 0>>)), content |-> Cached(3)],
      [name |-> CacheName(Stamp(<<2024, 1, 1, 10, 4, 0>>)), content |-> NotJson],
      [name |-> CacheName(Other), content |-> Cached(5)] }

StoreOf(objects) ==
    [n \in {o.name : o \in objects} |->
        (CHOOSE o \in objects : o.name = n).content]

Idle ==
    [ pc |-> "idle", x_api_key |-> <<>>, started |-> 0,
      cached_blob |-> None, cache_timestamp |-> 0,
      upstream |-> "none", code |-> 0, api_data |-> <<>>,
      transformed_data |-> <<>>,
      response |-> [status |-> 0, detail |-> "", body |-> <<>>],
      calls |-> 0, ops |-> <<>> ]

Init ==
    /\ clock = BaseClock
    /\ advances = 0
    /\ \E objects \in SUBSET InitObjects :
          /\ Cardinality(objects) <= MaxInitKeys
          /\ store = StoreOf(objects)
    /\ req = [r \in Reqs |-> Idle]

(* ---------------------------------------------------------------- actions *)
\* time passes
Advance ==
    /\ advances < MaxAdvances
    /\ \E d \in Deltas : clock' = clock + d
    /\ advances' = advances + 1
    /\ UNCHANGED <<store, req>>

\* the handler ends: an exception goes through the except clauses
Raised(r, e) == [req[r] EXCEPT !.pc = "done", !.response = Handle(e)]

\* lines 254-257: a request arrives and its key is validated
Start(r) ==
    /\ req[r].pc = "idle"
    /\ \E k \in ApiKeys :
         LET q == [req[r] EXCEPT !.x_api_key = k, !.started = clock]
         IN  req' = [req EXCEPT ![r] =
                IF KeyRejected(k)
                THEN [q EXCEPT !.pc = "done",
                               !.response = Handle(Exc("HTTPException", 400,
                                                       "API key is required"))]
                ELSE [q EXCEPT !.pc = "check"]]
    /\ UNCHANGED <<clock, advances, store>>

\* lines 260-262: get_latest_cache_file() and the test of its result
CheckCache(r) ==
    /\ req[r].pc = "check"
    /\ \E listOk \in BOOLEAN :
       \E res \in GetLatestCacheFile(listOk, DOMAIN store, clock) :
         LET q == [req[r] EXCEPT
                      !.ops = Append(@, [op |-> "list", name |-> None, ok |-> listOk,
                                         at |-> 0])]
         IN  req' = [req EXCEPT ![r] =
                IF res.raised
                THEN [q EXCEPT !.pc = "done",
                               !.response = Handle(Exc("Exception", 0, "store error"))]
                ELSE [q EXCEPT !.cached_blob = res.blob,
                               !.cache_timestamp = res.timestamp,
                               !.pc = AfterCheck(res.blob)]]
    /\ UNCHANGED <<clock, advances, store>>

\* lines 263-266: the cached object is downloaded, parsed and returned
Download(r) ==
    /\ req[r].pc = "hit"
    /\ \E downloadOk \in BOOLEAN :
         LET q == [req[r] EXCEPT
                      !.ops = Append(@, [op |-> "get", name |-> req[r].cached_blob,
                                         ok |-> downloadOk, at |-> 0])]
             cached_content == store[req[r].cached_blob]
         IN  req' = [req EXCEPT ![r] =
                IF ~downloadOk
                THEN [q EXCEPT !.pc = "done",
                               !.response = Handle(Exc("Exception", 0, "download failed"))]
                ELSE IF ~LoadsOk(cached_content)
                THEN [q EXCEPT !.pc = "done",
                               !.response = Handle(Exc("JSONDecodeError", 0, "not JSON"))]
                ELSE [q EXCEPT !.pc = "done",
                               !.response = Return(Loads(cached_content))]]
    /\ UNCHANGED <<clock, advances, store>>

\* lines 277-281 with the request sent again after the first answer
ClientGet_Retry(calls) == calls + 2

\* lines 277-281: client.get sends one request; calls counts them
ClientGet(calls) == calls + 1

\* lines 276-322: the upstream API is called and the call ends: with a
\* network error, or with an answer: a status code and a body, which is
\* JSON vessels (one of bodies, transformed) or no JSON
FetchFrom(r, bodies) ==
    /\ req[r].pc = "miss"
    /\ \/ req' = [req EXCEPT ![r] =
              [Raised(r, Exc("RequestError", 0, "connect failed"))
                  EXCEPT !.upstream = "network", !.calls = ClientGet(@)]]
       \/ \E code \in {200, 503} : \E api_data \in bodies \cup {None} :
            LET q == [req[r] EXCEPT !.upstream = "answered", !.code = code,
                                    !.calls = ClientGet(@)]
            IN  req' = [req EXCEPT ![r] =
                  IF ~IsSuccess(code)
                  THEN [q EXCEPT !.pc = "done",
                                 !.response = Handle(Exc("HTTPException", 502,
                                     "Failed to fetch data from Singapore API"))]
                  ELSE IF api_data = None
                  THEN [q EXCEPT !.pc = "done", !.upstream = "badbody",
                                 !.response = Handle(Exc("JSONDecodeError", 0, "not JSON"))]
                  ELSE [q EXCEPT !.pc = "save",
                                 !.api_data = api_data,
                                 !.transformed_data = Transform(api_data)]]
    /\ UNCHANGED <<clock, advances, store>>

Fetch(r) == FetchFrom(r, ApiBodies)

\* lines 325-328: save_to_cache(transformed_data), then the data is returned
Save(r) ==
    /\ req[r].pc = "save"
    /\ \E uploadOk \in BOOLEAN :
         LET cache_filename == CacheFilename(clock)
             saved == SaveToCacheResult(uploadOk, cache_filename)
             q == [req[r] EXCEPT
                      !.ops = Append(@, [op |-> "put", name |-> cache_filename,
                                         ok |-> uploadOk, at |-> clock])]
         IN  /\ store' = IF uploadOk
                         THEN [n \in DOMAIN store \cup {cache_filename} |->
                                 IF n = cache_filename
                                 THEN Dumps(req[r].transformed_data) ELSE store[n]]
                         ELSE store
             /\ req' = [req EXCEPT ![r] =
                   IF saved.raised
                   THEN [q EXCEPT !.pc = "done",
                                  !.response = Handle(Exc("Exception", 0, "upload failed"))]
                   ELSE [q EXCEPT !.pc = "done",
                                  !.response = Return(req[r].transformed_data)]]
    /\ UNCHANGED <<clock, advances>>

Next ==
    \/ Advance
    \/ \E r \in Reqs : Start(r)
    \/ \E r \in Reqs : CheckCache(r)
    \/ \E r \in Reqs : Download(r)
    \/ \E r \in Reqs : Fetch(r)
    \/ \E r \in Reqs : Save(r)

Spec == Init /\ [][Next]_vars

(* ------------------------------------------------- the cache index alone *)
\* object names of every shape get_latest_cache_file may meet
FindObjects ==
    InitObjects \cup
    { [name |-> CacheName(Stamp(<<2024, 1, 1, 9, 50, 0>>)), content |-> Cached(4)],
      [name |-> <<Other>>, content |-> NotJson],
      [name |-> CacheName(LooseStamp(<<2024, 1, 1, 10, 5, 30>>)), content |-> Cached(6)],
      [name |-> <<SINGAPORE_CACHE_FOLDER, SINGAPORE_CACHE_FOLDER,
                  Stamp(<<2024, 1, 1, 10, 3, 0>>), DotJson>>, content |-> Cached(7)],
      [name |-> <<SINGAPORE_CACHE_FOLDER, Stamp(<<2024, 1, 1, 10, 2, 0>>),
                  DotJson, DotJson>>, content |-> Cached(8)],
      [name |-> <<SINGAPORE_CACHE_FOLDER, Stamp(<<2024, 1, 1, 10, 5, 45>>)>>,
       content |-> Cached(9)],
      [name |-> CacheName(Stamp(<<2024, 1, 1, 10, 30, 0>>)), content |-> Cached(10)],
      [name |-> CacheName(Stamp(<<2024, 2, 30, 10, 5, 50>>)), content |-> Cached(11)] }

\* a request that has passed the validation of its key
Validated == [Idle EXCEPT !.pc = "check", !.x_api_key = <<" ", "k">>,
                          !.started = BaseClock]

FindInit ==
    /\ clock \in {BaseClock + d : d \in {0} \cup Deltas}
    /\ advances = 0
    /\ \E objects \in SUBSET FindObjects :
          /\ Cardinality(objects) <= MaxFindKeys
          /\ store = StoreOf(objects)
    /\ req = [r \in Reqs |-> Validated]

FindNext == \E r \in Reqs : CheckCache(r)

SpecFind == FindInit /\ [][FindNext]_vars

(* ------------------------------------- four lookups within one instant *)
RaceReqs == Reqs \cup {"r3", "r4"}

\* an empty cache and four validated lookups; the clock stands still
RaceInit ==
    /\ clock = BaseClock
    /\ advances = 0
    /\ store = StoreOf({})
    /\ req = [r \in RaceReqs |-> Validated]

RaceNext ==
    \/ \E r \in RaceReqs : CheckCache(r)
    \/ \E r \in RaceReqs : Download(r)
    \/ \E r \in RaceReqs : Fetch(r)
    \/ \E r \in RaceReqs : Save(r)

SpecRace == RaceInit /\ [][RaceNext]_vars

(* ------------------------------------------- the transformation alone *)
\* how many fields an upstream vessel object carries
MaxShipFields == 2

StringFields ==
    {"vesselName", "callSign", "imoNumber", "flag", "vesselType", "mmsiNumber",
     "yearBuilt", "timeStamp"}

ParticularNumbers ==
    {"vesselLength", "vesselBreadth", "vesselDepth", "grossTonnage", "netTonnage",
     "deadweight"}

PositionNumbers ==
    {"latitude", "longitude", "latitudeDegrees", "longitudeDegrees", "speed",
     "course", "heading"}

ShipFields == StringFields \cup ParticularNumbers \cup PositionNumbers

\* the value each field has in an upstream vessel object that carries it
RawValues ==
    [ vesselName |-> "EVER", callSign |-> "9V", imoNumber |-> "IMO1", flag |-> "SG",
      vesselType |-> "TANKER", mmsiNumber |-> "563", yearBuilt |-> "2001",
      timeStamp |-> "2024-01-01T10:06:00",
      vesselLength |-> JInt(300), vesselBreadth |-> JFloat(48),
      vesselDepth |-> JInt(25), grossTonnage |-> JInt(9000),
      netTonnage |-> JFloat(7000), deadweight |-> JInt(12000),
      latitude |-> JFloat(15), longitude |-> JInt(103),
      latitudeDegrees |-> JFloat(1), longitudeDegrees |-> JFloat(104),
      speed |-> JInt(7), course |-> JFloat(90), heading |-> JInt(91) ]

\* the sets of at most k fields
RECURSIVE FieldSets(_)
FieldSets(k) ==
    IF k = 0 THEN {{}}
    ELSE LET S == FieldSets(k - 1)
         IN  S \cup { D \cup {f} : D \in S, f \in ShipFields }

\* answers of one vessel object carrying at most MaxShipFields fields
NormBodies == { << [f \in D |-> RawValues[f]] >> : D \in FieldSets(MaxShipFields) }

\* one lookup that has missed the cache
NormInit ==
    /\ clock = BaseClock
    /\ advances = 0
    /\ store = StoreOf({})
    /\ req = [r \in {"r1"} |-> [Validated EXCEPT !.pc = "miss"]]

NormNext == \E r \in DOMAIN req : FetchFrom(r, NormBodies)

SpecNorm == NormInit /\ [][NormNext]_vars

(* -------------------------------------------------- the data endpoints *)
POSITION_FILE_NAME == <<Seg("positions", <<>>, TRUE)>>
FUEL_CONSUMPTION_FILE_NAME == <<Seg("fuel-consumption", <<>>, TRUE)>>

\* a value of a position line: its text, and the number it reads as, if any
Text(t) == [num |-> FALSE, v |-> 0, text |-> t]
Number(v) == [num |-> TRUE, v |-> v, text |-> ""]

\* one line of the position file, "key: value" when colon
Line(key, value) == [colon |-> TRUE, key |-> key, value |-> value]
Bare(t) == [colon |-> FALSE, key |-> t, value |-> Text("")]

\* str.lower of the keys the position file holds
Lower(key) ==
    CASE key = "Time" -> "time"
      [] key = "Latitude" -> "latitude"
      [] key = "Longitude" -> "longitude"
      [] OTHER -> key

\* lines 143-150: float() raises on a latitude or longitude that is no number
PositionRaises(lines) ==
    \E i \in 1..Len(lines) :
        /\ lines[i].colon
        /\ Lower(lines[i].key) \in {"latitude", "longitude"}
        /\ ~lines[i].value.num

\* lines 141-152: the dict of the lines that hold a colon, keys lower-cased,
\* the later line of a key overwriting the earlier one
PositionData(lines) ==
    LET at(k) == { i \in 1..Len(lines) : lines[i].colon /\ Lower(lines[i].key) = k }
        keys == { Lower(lines[i].key) : i \in { j \in 1..Len(lines) : lines[j].colon } }
        last(k) == CHOOSE i \in at(k) : \A j \in at(k) : j <= i
    IN  [ k \in keys |->
            IF k \in {"latitude", "longitude"}
            THEN JFloat(lines[last(k)].value.v)
            ELSE lines[last(k)].value ]

\* lines 161-165: the text submit_data writes
PositionContent(data) ==
    << Line("Time", Text(data.time)),
       Line("Latitude", Number(data.lat)),
       Line("Longitude", Number(data.lon)) >>

\* str(n) of a natural number, as its decimal digits
RECURSIVE Str(_)
Str(n) == IF n < 10 THEN <<n>> ELSE Append(Str(n \div 10), n % 10)

\* round(x) of a speed given in half knots: a half goes to the even neighbour
Round(h) ==
    IF h % 2 = 0 THEN h \div 2
    ELSE LET lo == (h - 1) \div 2
         IN  IF lo % 2 = 0 THEN lo ELSE lo + 1

Max(a, b) == IF a >= b THEN a ELSE b
Min(a, b) == IF a <= b THEN a ELSE b

\* line 218
Clamp(speed) == Max(8, Min(22, speed))

\* `not d` of a dict or None
Falsy(d) == DOMAIN d = {}

\* a fuel table: tons per day by speed for one vessel type, an empty entry
\* for another, an entry without a consumption map for a third
FuelTable ==
    [ cargo |->
        [ bulk  |-> [ fuel_consumption_tpd |->
                        [ k \in {Str(8), Str(22)} |-> IF k = Str(8) THEN 12 ELSE 95 ] ],
          empty |-> <<>>,
          plain |-> [ name |-> "plain" ] ] ]

DataReqs == {"d1", "d2"}
Categories == {"cargo", "tanker"}
VesselTypes == {"bulk", "empty", "plain", "tug"}
\* speeds in half knots: 7, 8.5, 9.5, 22.5 and 30 knots
Speeds == {14, 17, 19, 45, 60}
Inputs == { [time |-> "noon", lat |-> 1, lon |-> 103] }

DataObjects ==
    { [name |-> POSITION_FILE_NAME, content |-> PositionContent(CHOOSE d \in Inputs : TRUE)],
      [name |-> POSITION_FILE_NAME,
       content |-> << Bare("header"), Line("Latitude", Text("north")) >>],
      [name |-> FUEL_CONSUMPTION_FILE_NAME, content |-> Dumps(FuelTable)],
      [name |-> FUEL_CONSUMPTION_FILE_NAME, content |-> NotJson] }

DataIdle ==
    [ pc |-> "idle", endpoint |-> "", exists |-> "unasked", download |-> "unasked",
      category |-> "", vessel_type |-> "", speed |-> 0,
      response |-> [status |-> 0, detail |-> "", body |-> <<>>] ]

DataInit ==
    /\ clock = BaseClock
    /\ advances = 0
    /\ \E objects \in SUBSET DataObjects :
          /\ \A o1, o2 \in objects : o1.name = o2.name => o1 = o2
          /\ store = StoreOf(objects)
    /\ req = [r \in DataReqs |-> DataIdle]

\* lines 138, 185, 210
NotFound == Exc("HTTPException", 404, "Data file not found.")

\* lines 155-157, 172-174, 191-193, 240-242: the only except clause of the
\* data handlers, which HTTPException matches too
HandleData(e) == [status |-> 500, detail |-> e.detail, body |-> <<>>]

\* lines 133-140, 180-187, 205-212: the file is looked up and downloaded;
\* the result is the request after it, still running when the text is there
Open(q, name, existsOk, downloadOk) ==
    IF ~existsOk
    THEN [q EXCEPT !.pc = "done", !.exists = "error",
                   !.response = HandleData(Exc("Exception", 0, "store error"))]
    ELSE IF name \notin DOMAIN store
    THEN [q EXCEPT !.pc = "done", !.exists = "no", !.response = HandleData(NotFound)]
    ELSE IF ~downloadOk
    THEN [q EXCEPT !.pc = "done", !.exists = "yes", !.download = "error",
                   !.response = HandleData(Exc("Exception", 0, "download failed"))]
    ELSE [q EXCEPT !.pc = "run", !.exists = "yes", !.download = "ok"]

Answer(q, response) == [q EXCEPT !.pc = "done", !.response = response]

\* lines 130-157
GetData(r) ==
    /\ req[r].pc = "idle"
    /\ \E existsOk, downloadOk \in BOOLEAN :
         LET q == Open([req[r] EXCEPT !.endpoint = "GET /positions"],
                       POSITION_FILE_NAME, existsOk, downloadOk)
             lines == store[POSITION_FILE_NAME]
         IN  req' = [req EXCEPT ![r] =
                IF q.pc = "done" THEN q
                ELSE IF PositionRaises(lines)
                THEN Answer(q, HandleData(Exc("ValueError", 0, "could not convert")))
                ELSE Answer(q, Return(PositionData(lines)))]
    /\ UNCHANGED <<clock, advances, store>>

\* lines 159-174
SubmitData(r) ==
    /\ req[r].pc = "idle"
    /\ \E data \in Inputs, uploadOk \in BOOLEAN :
         LET q == [req[r] EXCEPT !.endpoint = "POST /positions"]
         IN  IF uploadOk
             THEN /\ store' = [n \in DOMAIN store \cup {POSITION_FILE_NAME} |->
                                 IF n = POSITION_FILE_NAME THEN PositionContent(data)
                                 ELSE store[n]]
                  /\ req' = [req EXCEPT ![r] = Answer(q, Return("Data written"))]
             ELSE /\ store' = store
                  /\ req' = [req EXCEPT ![r] =
                        Answer(q, HandleData(Exc("Exception", 0, "upload failed")))]
    /\ UNCHANGED <<clock, advances>>

\* lines 177-193
GetFuelConsumptionData(r) ==
    /\ req[r].pc = "idle"
    /\ \E existsOk, downloadOk \in BOOLEAN :
         LET q == Open([req[r] EXCEPT !.endpoint = "GET /fuel-consumption"],
                       FUEL_CONSUMPTION_FILE_NAME, existsOk, downloadOk)
             content == store[FUEL_CONSUMPTION_FILE_NAME]
         IN  req' = [req EXCEPT ![r] =
                IF q.pc = "done" THEN q
                ELSE IF ~LoadsOk(content)
                THEN Answer(q, HandleData(Exc("JSONDecodeError", 0, "no json")))
                ELSE Answer(q, Return(Loads(content)))]
    /\ UNCHANGED <<clock, advances, store>>

\* lines 214-238: the lookup in the table
FuelValue(data, request) ==
    LET clamped_speed == Clamp(Round(request.speed))
        vessel_info == Get(Get(data, request.category, <<>>), request.vessel_type, None)
        fuel_map == Get(vessel_info, "fuel_consumption_tpd", <<>>)
    IN  IF Falsy(vessel_info)
        THEN HandleData(Exc("HTTPException", 404, "Vessel type not found."))
        ELSE IF Str(clamped_speed) \notin DOMAIN fuel_map
        THEN HandleData(Exc("HTTPException", 404,
                            "Fuel data not available for this speed."))
        ELSE Return([ category |-> request.category,
                      vessel_type |-> request.vessel_type,
                      requested_speed |-> request.speed,
                      used_speed |-> clamped_speed,
                      fuel_consumption_tpd |-> fuel_map[Str(clamped_speed)] ])

\* lines 202-242
GetFuelConsumptionValue(r) ==
    /\ req[r].pc = "idle"
    /\ \E category \in Categories, vessel_type \in VesselTypes, speed \in Speeds,
          existsOk, downloadOk \in BOOLEAN :
         LET request == [category |-> category, vessel_type |-> vessel_type,
                         speed |-> speed]
             q == Open([req[r] EXCEPT !.endpoint = "POST /fuel-consumption",
                                      !.category = category,
                                      !.vessel_type = vessel_type,
                                      !.speed = speed],
                       FUEL_CONSUMPTION_FILE_NAME, existsOk, downloadOk)
             content == store[FUEL_CONSUMPTION_FILE_NAME]
         IN  req' = [req EXCEPT ![r] =
                IF q.pc = "done" THEN q
                ELSE IF ~LoadsOk(content)
                THEN Answer(q, HandleData(Exc("JSONDecodeError", 0, "no json")))
                ELSE Answer(q, FuelValue(Loads(content), request))]
    /\ UNCHANGED <<clock, advances, store>>

DataNext ==
    \/ \E r \in DataReqs : GetData(r)
    \/ \E r \in DataReqs : SubmitData(r)
    \/ \E r \in DataReqs : GetFuelConsumptionData(r)
    \/ \E r \in DataReqs : GetFuelConsumptionValue(r)

SpecData == DataInit /\ [][DataNext]_vars

(* ----------------------------------------------------------------- claims *)
Checked(r) == req[r].pc \in {"hit", "miss"}
ListedOk(r) == Len(req[r].ops) >= 1 /\ req[r].ops[1].op = "list" /\ req[r].ops[1].ok

\* the names under the cache folder that end in '.json', parse, and whose
\* age at instant now is at most the ten-minute window
Qualifying(names, now) ==
    { n \in names : /\ StartsWith(n, SINGAPORE_CACHE_FOLDER)
                    /\ EndsWith(n, DotJson)
                    /\ StrptimeOk(Filename(n))
                    /\ now - Strptime(Filename(n)) <= 10 * 60 * TicksPerSecond }

\* C4: when the listing succeeds, get_latest_cache_file returns an entry
\* of maximum timestamp among the names that parse and are at most ten
\* minutes old, with that timestamp, and returns no entry exactly when no
\* name qualifies.
C4_FindFreshest ==
    \A r \in Reqs :
        (Checked(r) /\ ListedOk(r)) =>
            LET Q == Qualifying(DOMAIN store, clock)
                b == req[r].cached_blob
            IN  /\ (b = None) <=> (Q = {})
                /\ b # None =>
                     /\ b \in Q
                     /\ req[r].cache_timestamp = Strptime(Filename(b))
                     /\ \A n \in Q : Strptime(Filename(n)) <= req[r].cache_timestamp

\* C4 witness: of two qualifying entries and one that does not parse, the
\* later one was returned
C4_Witness ==
    \E r \in Reqs :
        /\ Checked(r) /\ ListedOk(r)
        /\ Cardinality(Qualifying(DOMAIN store, clock)) >= 2
        /\ \E n \in DOMAIN store :
              StartsWith(n, SINGAPORE_CACHE_FOLDER) /\ ~StrptimeOk(Filename(n))
        /\ req[r].cached_blob # None
        /\ \E n \in Qualifying(DOMAIN store, clock) :
              Strptime(Filename(n)) < req[r].cache_timestamp

Done(r) == req[r].pc = "done"
Arrived(r) == req[r].pc # "idle"

\* the key is empty or holds nothing but whitespace
Blank(key) == \A i \in 1..Len(key) : key[i] = " "

Puts(ops) == SelectSeq(ops, LAMBDA o : o.op = "put")
Last(ops) == ops[Len(ops)]

\* the upstream call of r failed: no connection, or a status that is no success
UpstreamFailed(r) ==
    \/ req[r].upstream = "network"
    \/ req[r].upstream = "answered" /\ req[r].code \notin 200..299

\* C1: a lookup whose key is empty or only whitespace is answered 400.
C1_BlankKeyIs400 ==
    \A r \in Reqs :
        (Done(r) /\ Blank(req[r].x_api_key)) => req[r].response.status = 400

\* C2: a lookup whose key is empty or only whitespace ends without any
\* operation on the object store and without any call of the upstream API.
C2_BlankKeyTouchesNothing ==
    \A r \in Reqs :
        (Arrived(r) /\ Blank(req[r].x_api_key)) =>
            /\ Done(r)
            /\ req[r].response.status # 200
            /\ req[r].ops = <<>>
            /\ req[r].calls = 0

\* C2 witness: a lookup with a whitespace-only key has ended
C2_Witness ==
    \E r \in Reqs :
        Done(r) /\ req[r].x_api_key = <<" ", " ">> /\ req[r].ops = <<>>

C5_UpstreamStatusIs502 ==
    \A r \in Reqs :
        (Done(r) /\ req[r].upstream = "answered" /\ req[r].code \notin 200..299) =>
            req[r].response.status = 502

\* C6: a lookup whose upstream call failed (a status that is no success, or
\* a network failure) ends without having written to the store.
C6_NoWriteOnUpstreamFailure ==
    \A r \in Reqs :
        UpstreamFailed(r) =>
            /\ Done(r)
            /\ req[r].response.status # 200
            /\ Puts(req[r].ops) = <<>>

\* C6 witness: an upstream call has failed with status 503
C6_Witness ==
    \E r \in Reqs : Done(r) /\ req[r].code = 503 /\ req[r].calls = 1

\* C7: a lookup whose upstream call fails at the network level is
\* answered 502 with a network error.
C7_NetworkErrorIs502 ==
    \A r \in Reqs :
        req[r].upstream = "network" =>
            /\ Done(r)
            /\ req[r].response.status = 502
            /\ req[r].response.detail = "Network error"

\* C7 witness: an upstream call has failed at the network level
C7_Witness ==
    \E r \in Reqs : Done(r) /\ req[r].upstream = "network" /\ req[r].calls = 1

\* C8: a lookup whose upstream fetch succeeded and whose cache write
\* failed is answered 200 with the fetched, transformed vessels.
C8_WriteFailureNotSurfaced ==
    \A r \in Reqs :
        (Done(r) /\ Puts(req[r].ops) # <<>> /\ ~Puts(req[r].ops)[1].ok) =>
            /\ req[r].response.status = 200
            /\ req[r].response.body = req[r].transformed_data
            /\ \E api_data \in ApiBodies : req[r].response.body = Transform(api_data)

\* C8 witness: a cache write has failed and the lookup has ended
C8_Witness ==
    \E r \in Reqs :
        /\ Done(r) /\ Puts(req[r].ops) # <<>> /\ ~Puts(req[r].ops)[1].ok
        /\ Puts(req[r].ops)[1].name \notin DOMAIN store

\* C9: with a valid key, no failure of the cache layer reaches the caller:
\* a lookup that is not answered 200 had a blank key, or went on to the
\* upstream fetch and failed there.
C9_CacheFailuresAbsorbed ==
    \A r \in Reqs :
        (Done(r) /\ req[r].response.status # 200) =>
            \/ Blank(req[r].x_api_key)
            \/ req[r].calls = 1 /\ Puts(req[r].ops) = <<>>

\* C10: get_latest_cache_file changes nothing in the store, and when the
\* store raises an error while the names are listed it returns no entry
\* and the lookup goes on to the upstream fetch.
C10_FindFreshestNeverFails ==
    [][ \A r \in Reqs :
          (req[r].pc = "check" /\ req'[r].pc # "check") =>
            /\ store' = store
            /\ ~Last(req'[r].ops).ok =>
                 /\ req'[r].cached_blob = None
                 /\ req'[r].pc = "miss"
                 /\ req'[r].response.status = 0 ]_vars

\* C10 witness: the listing failed while a fresh entry was in the store,
\* and the lookup is about to call the upstream API
C10_Witness ==
    \E r \in Reqs :
        /\ req[r].pc = "miss"
        /\ ~req[r].ops[1].ok
        /\ Qualifying(DOMAIN store, clock) # {}

\* the upstream call of r was answered with a success status and vessels
FetchSucceeded(r) == req[r].upstream = "answered" /\ req[r].code \in 200..299

\* the instant a name <folder><date-time>.json is stamped with
StampOf(name) == Instant(name[2].fields)

\* the name is the folder, one zero-padded date-time and '.json'
ExactForm(name) ==
    /\ Len(name) = 3
    /\ name[1] = SINGAPORE_CACHE_FOLDER
    /\ name[2].kind = "stamp" /\ name[2].padded
    /\ name[3] = DotJson

\* C11 as stated: a lookup whose upstream fetch succeeded has attempted
\* exactly one cache write, to a name under the cache folder stamped with
\* a time that is not before the start of the lookup.
C11_StampNotBeforeStart ==
    \A r \in Reqs :
        (Done(r) /\ FetchSucceeded(r)) =>
            /\ Len(Puts(req[r].ops)) = 1
            /\ ExactForm(Puts(req[r].ops)[1].name)
            /\ StampOf(Puts(req[r].ops)[1].name) >= req[r].started

\* C11 amended: a lookup whose upstream fetch succeeded attempts exactly
\* one cache write, whether or not it succeeds, to a name under the cache
\* folder stamped with the clock read at write time cut to whole seconds;
\* the stamp is not before the start of the lookup cut to whole seconds.
C11_OneWriteStampedAtWriteTime ==
    \A r \in Reqs :
        FetchSucceeded(r) =>
            /\ req[r].pc \in {"save", "done"}
            /\ req[r].pc = "save" => Puts(req[r].ops) = <<>>
            /\ Done(r) =>
                 /\ Len(Puts(req[r].ops)) = 1
                 /\ LET p == Puts(req[r].ops)[1]
                    IN  /\ ExactForm(p.name)
                        /\ p.at >= req[r].started
                        /\ StampOf(p.name) = p.at - (p.at % TicksPerSecond)
                        /\ StampOf(p.name) >=
                             req[r].started - (req[r].started % TicksPerSecond)

\* C11 witness: a lookup started within a second, fetched, and its cache
\* write failed; the name it wrote to is stamped before its start
C11_Witness ==
    \E r \in Reqs :
        /\ Done(r) /\ FetchSucceeded(r)
        /\ Len(Puts(req[r].ops)) = 1
        /\ ~Puts(req[r].ops)[1].ok
        /\ StampOf(Puts(req[r].ops)[1].name) < req[r].started

\* C12: once an object is in the store, no step changes its content or
\* removes it: every cache write goes to a name that is not there yet.
C12_WrittenNeverChanged ==
    [][ \A n \in DOMAIN store :
          n \in DOMAIN store' /\ store'[n] = store[n] ]_vars

\* C13: two lookups that selected the same cache entry and returned its
\* payload returned the same payload, and neither called the upstream API.
C13_SameEntrySamePayload ==
    \A r \in DOMAIN req : \A q \in DOMAIN req :
        ( /\ req[r].pc = "done" /\ req[q].pc = "done"
          /\ req[r].cached_blob # None
          /\ req[r].cached_blob = req[q].cached_blob
          /\ req[r].response.status = 200 /\ req[q].response.status = 200 ) =>
            /\ req[r].response.body = req[q].response.body
            /\ req[r].calls = 0 /\ req[q].calls = 0

\* C14: a lookup with a valid key goes on to the cache check; when no name
\* in the store is within the ten-minute window the check ends in a miss,
\* and the miss is followed by exactly one call of the upstream API; no
\* lookup ever makes more than one upstream call or more than one store
\* write.
C14_OneCallOnMiss ==
    [][ \A r \in Reqs :
          /\ req'[r].calls <= 1
          /\ Len(Puts(req'[r].ops)) <= 1
          /\ (req[r].pc = "idle" /\ req'[r].pc # "idle"
                 /\ ~Blank(req'[r].x_api_key)) =>
                req'[r].pc = "check"
          /\ (req[r].pc = "check" /\ req'[r].pc # "check"
                 /\ Qualifying(DOMAIN store, clock) = {}) =>
                (req'[r].pc = "miss" /\ req'[r].calls = 0)
          /\ (req[r].pc = "miss" /\ req'[r].pc # "miss") =>
                req'[r].calls = 1 ]_vars

\* C14 witness: a lookup listed a store without any cache object, called
\* the upstream API once and has ended
C14_Witness ==
    \E r \in Reqs :
        /\ Done(r) /\ ~Blank(req[r].x_api_key)
        /\ req[r].ops[1].ok
        /\ ListBlobs(DOMAIN store) = {}
        /\ req[r].calls = 1

\* a number as the float of its value, and the float zero
AsFloat(x) == [v |-> x.v, float |-> TRUE]
FloatZero == [v |-> 0, float |-> TRUE]

Has(ship, f) == f \in DOMAIN ship

\* out is the record the claim describes for the upstream object ship
Normalized(ship, out) ==
    /\ out.latitudeDegrees =
          IF Has(ship, "latitudeDegrees") THEN AsFloat(ship["latitudeDegrees"])
          ELSE IF Has(ship, "latitude") THEN AsFloat(ship["latitude"])
          ELSE FloatZero
    /\ out.longitudeDegrees =
          IF Has(ship, "longitudeDegrees") THEN AsFloat(ship["longitudeDegrees"])
          ELSE IF Has(ship, "longitude") THEN AsFloat(ship["longitude"])
          ELSE FloatZero
    /\ \A f \in PositionNumbers \ {"latitudeDegrees", "longitudeDegrees"} :
          out[f] = IF Has(ship, f) THEN AsFloat(ship[f]) ELSE FloatZero
    /\ \A f \in ParticularNumbers :
          out.vesselParticulars[f] = IF Has(ship, f) THEN AsFloat(ship[f]) ELSE FloatZero
    /\ \A f \in StringFields \ {"timeStamp"} :
          out.vesselParticulars[f] = IF Has(ship, f) THEN ship[f] ELSE ""
    /\ out.timeStamp = IF Has(ship, "timeStamp") THEN ship["timeStamp"] ELSE ""

\* C15: every vessel object of the upstream answer is transformed to a
\* record whose latitudeDegrees is the object's latitudeDegrees when
\* present, else its latitude when present, else 0 (likewise
\* longitudeDegrees), whose other numbers default to 0 and whose strings
\* default to the empty string.
C15_Normalization ==
    \A r \in DOMAIN req :
        req[r].pc = "save" =>
            /\ Len(req[r].transformed_data) = Len(req[r].api_data)
            /\ \A i \in 1..Len(req[r].api_data) :
                  Normalized(req[r].api_data[i], req[r].transformed_data[i])

\* C15 witness: an object with latitude 1.5 and no latitudeDegrees was
\* transformed to latitudeDegrees 1.5
C15_Witness ==
    \E r \in DOMAIN req :
        /\ req[r].pc = "save"
        /\ Has(req[r].api_data[1], "latitude")
        /\ ~Has(req[r].api_data[1], "latitudeDegrees")
        /\ req[r].transformed_data[1].latitudeDegrees = JFloat(15)
        /\ req[r].transformed_data[1].longitudeDegrees = FloatZero

\* the names of the store that have the exact form
ExactNames == { n \in DOMAIN store : ExactForm(n) }

\* C16: get_latest_cache_file never returns a name that is not exactly
\* the folder, one zero-padded date-time and '.json'; names of any other
\* form are skipped, and the entry returned is the one that would be
\* returned if they were not in the store.
C16_OnlyExactFormSelected ==
    \A r \in Reqs :
        (Checked(r) /\ ListedOk(r)) =>
            LET Q == Qualifying(ExactNames, clock)
                b == req[r].cached_blob
            IN  /\ (b = None) <=> (Q = {})
                /\ b # None =>
                     /\ ExactForm(b)
                     /\ b \in Q
                     /\ \A n \in Q : Strptime(Filename(n)) <= req[r].cache_timestamp

\* the table has no entry for the vessel or for the clamped speed of d
NoEntry(d) ==
    LET vessel_info == Get(Get(FuelTable, req[d].category, <<>>), req[d].vessel_type, <<>>)
        fuel_map == Get(vessel_info, "fuel_consumption_tpd", <<>>)
    IN  \/ DOMAIN vessel_info = {}
        \/ Str(Clamp(Round(req[d].speed))) \notin DOMAIN fuel_map

\* C17: a data endpoint whose backing object is not in the store answers
\* 404 'Data file not found.', and POST /fuel-consumption answers 404 when
\* the table has no entry for the category and vessel type or for the
\* clamped speed.
C17_AbsentIs404 ==
    \A d \in DOMAIN req :
        req[d].pc = "done" =>
            /\ ( /\ req[d].endpoint \in {"GET /positions", "GET /fuel-consumption",
                                         "POST /fuel-consumption"}
                 /\ req[d].exists = "no" )
                  => ( /\ req[d].response.status = 404
                       /\ req[d].response.detail = "Data file not found." )
            /\ ( /\ req[d].endpoint = "POST /fuel-consumption"
                 /\ req[d].download = "ok"
                 /\ store[FUEL_CONSUMPTION_FILE_NAME] = Dumps(FuelTable)
                 /\ NoEntry(d) )
                  => req[d].response.status = 404

\* the cache writes that succeeded, of lookups that missed, fetched and ended
WritesOk ==
    { Puts(req[w].ops)[1] :
        w \in { v \in Reqs : /\ Done(v) /\ FetchSucceeded(v)
                             /\ Puts(req[v].ops) # <<>>
                             /\ Puts(req[v].ops)[1].ok } }

Window == timedelta(CACHE_EXPIRY_MINUTES)

\* C18 as stated: after a lookup missed, fetched and wrote the cache, a
\* lookup with a valid key whose listing of the store succeeds no more than
\* ten minutes after the instant of that write finds an entry, calls no
\* upstream API and, its download succeeding, returns the entry's payload.
C18_HitWithinTenMinutesOfWrite ==
    [][ \A r \in Reqs :
          /\ ( /\ req[r].pc = "check" /\ req'[r].pc # "check"
               /\ Last(req'[r].ops).ok
               /\ \E p \in WritesOk : p.at <= clock /\ clock - p.at <= Window )
                => (req'[r].pc = "hit" /\ req'[r].calls = 0)
          /\ ( /\ req[r].pc = "hit" /\ req'[r].pc = "done"
               /\ \E p \in WritesOk : req[r].cached_blob = p.name )
                => /\ req'[r].calls = 0
                   /\ Last(req'[r].ops).ok => req'[r].response.status = 200 ]_vars

\* C18 amended: the ten minutes count from the write's timestamp, the
\* instant of the write cut to whole seconds: a lookup whose listing
\* succeeds no more than ten minutes after that timestamp finds an entry
\* stamped no earlier and calls no upstream API; it returns the entry's
\* payload when its download and the deserialization succeed.
C18_HitWithinTenMinutesOfStamp ==
    [][ \A r \in Reqs :
          /\ ( /\ req[r].pc = "check" /\ req'[r].pc # "check"
               /\ Last(req'[r].ops).ok
               /\ \E p \in WritesOk :
                     p.at <= clock /\ clock - StampOf(p.name) <= Window )
                => /\ req'[r].pc = "hit" /\ req'[r].calls = 0
                   /\ \E p \in WritesOk : req'[r].cache_timestamp >= StampOf(p.name)
          /\ ( /\ req[r].pc = "hit" /\ req'[r].pc = "done"
               /\ \E p \in WritesOk : req[r].cache_timestamp >= StampOf(p.name) )
                => /\ req'[r].calls = 0
                   /\ (Last(req'[r].ops).ok /\ LoadsOk(store[req[r].cached_blob]))
                        => req'[r].response = Return(Loads(store[req[r].cached_blob])) ]_vars

\* C18 witness: a lookup returned, without a call, the entry another lookup
\* wrote, ten minutes after the entry's timestamp
C18_Witness ==
    \E r \in Reqs : \E p \in WritesOk :
        /\ Done(r) /\ req[r].calls = 0
        /\ req[r].cached_blob = p.name
        /\ req[r].response.status = 200
        /\ clock - StampOf(p.name) = Window

\* the well-formed names of the store stamped later than instant now
Future(now) ==
    { n \in ExactNames : StrptimeOk(Filename(n)) /\ Strptime(Filename(n)) > now }

\* C19: a well-formed name whose timestamp is later than the current time
\* counts as within the window: when the store holds one, the name
\* get_latest_cache_file returns is stamped no earlier than it, so no name
\* with an earlier timestamp is returned in its place.
C19_FutureEntryCounts ==
    \A r \in Reqs :
        (Checked(r) /\ ListedOk(r)) =>
            \A n \in Future(clock) :
                /\ n \in Qualifying(DOMAIN store, clock)
                /\ req[r].cached_blob # None
                /\ req[r].cache_timestamp >= Strptime(Filename(n))
                /\ \A m \in DOMAIN store :
                      ( /\ StartsWith(m, SINGAPORE_CACHE_FOLDER)
                        /\ StrptimeOk(Filename(m))
                        /\ Strptime(Filename(m)) < Strptime(Filename(n)) )
                         => req[r].cached_blob # m

\* C19 witness: the name returned is stamped later than the current time
\* while the store holds a name at most ten minutes old
C19_Witness ==
    \E r \in Reqs :
        /\ Checked(r) /\ ListedOk(r)
        /\ req[r].cached_blob \in Future(clock)
        /\ \E m \in Qualifying(DOMAIN store, clock) : Strptime(Filename(m)) <= clock

====
